---- MODULE Spec2Model ----
(***************************************************************************)
(* Model of src/Tarefa_Brou.py: the Box-Cox decision on the response       *)
(* (section 3) and the model selection by information criteria (section    *)
(* 4: all-subsets table, forward, backward and stepwise searches, final    *)
(* variable set).                                                          *)
(*                                                                         *)
(* Quantities are integers in fixed units:                                 *)
(*   - the response y0 and the shift are in units of 5e-7 (half of the     *)
(*     1e-6 of line 129), so that values strictly between 0 and 1e-6       *)
(*     exist;                                                              *)
(*   - the Box-Cox lambda is in units of 0.05, so that |lambda-1| can be   *)
(*     below, equal to and above the 0.10 of line 141;                     *)
(*   - AIC and BIC are in units of 1e-8, the improvement threshold of      *)
(*     lines 183, 200, 220 and 235, so that two AIC values can tie, differ *)
(*     by exactly the threshold, or differ by more.                        *)
(* The fits themselves (statsmodels OLS, scipy boxcox) are library code:   *)
(* their results are inputs drawn from bounded sets.                       *)
(***************************************************************************)
EXTENDS Integers, Sequences, FiniteSets, TLC

\* ------------------------------------------------------------------ bounds
\* the file has 1..NumFactors of the base factors as columns
NumFactors == 2
\* AIC values are 0..MaxAIC
MaxAIC == 2
\* BIC - AIC = pen * (number of parameters), pen in -MaxPen..MaxPen
MaxPen == 2
\* the response series has 1..MaxObs observations
MaxObs == 2
\* the response values are -MaxY..MaxY
MaxY == 3
\* lambda is within MaxDev units of 1.0
MaxDev == 3

\* ------------------------------------------------------- program constants
\* 1e-6 of line 129, in units of 5e-7
EpsShift == 2
\* 1.0 of line 141, in units of 0.05
LambdaOne == 20
\* 0.10 of line 141, in units of 0.05
AdoptTol == 2
\* 1e-8 of lines 183, 200, 220, 235, in units of 1e-8
Eps == 1

\* np.inf of lines 175 and 208: above every AIC by more than the threshold
INF == MaxAIC + Eps + 1

base_factors == <<"Rm-Rf", "SMB", "HML", "RMW", "CMA", "Mom", "ST_Rev", "LT_Rev">>

VARIABLES
    factors,        \* line 58: the base factors that are columns of the file
    y0,             \* the response series (line 121)
    min_y, shift, y_pos,   \* lines 128-130
    lambda_bc,      \* <<>> for None, <<l>> for a value (lines 132-138)
    y_for_fit,      \* the response the selection and the final fit use
    y_label,
    aic,            \* m.aic of the fit on each set of columns
    pen,            \* m.bic - m.aic per parameter of the fit
    rankdef,        \* the sets of columns whose design is rank-deficient
    results_subset, \* line 155
    res_df,         \* line 167: rows with their index label
    best_aic_vars, best_bic_vars, final_vars,
    remaining, current_aic,        \* lines 173/175 and 207/208
    selected_fwd, selected_bwd, selected_sw,
    changed,
    run, prev,      \* which execution of the script this is; the lists of the previous one
    pc

bcVars == <<y0, min_y, shift, y_pos, lambda_bc, y_for_fit, y_label>>
dataVars == <<factors, aic, pen, rankdef>>
subVars == <<results_subset, res_df, best_aic_vars, best_bic_vars, final_vars>>
selVars == <<remaining, current_aic, selected_fwd, selected_bwd, selected_sw, changed>>
runVars == <<run, prev>>
vars == <<bcVars, dataVars, subVars, selVars, runVars, pc>>

\* ----------------------------------------------------------------- helpers
ToSet(s) == {s[i] : i \in 1..Len(s)}

F == ToSet(factors)

\* Series.min()
SeqMin(s) == CHOOSE m \in ToSet(s) : \A x \in ToSet(s) : m <= x

Abs(x) == IF x < 0 THEN -x ELSE x

\* list.remove(x): drops the first occurrence
Remove(s, x) ==
    LET i == CHOOSE j \in 1..Len(s) : s[j] = x /\ \A k \in 1..(j-1) : s[k] # x
    IN  SubSeq(s, 1, i-1) \o SubSeq(s, i+1, Len(s))

\* m.aic of OLS(y_for_fit, add_constant(data_nc[vars])): a function of the
\* set of columns
AicOf(vs) == aic[ToSet(vs)]

\* m.bic of the same fit: both criteria come from one log-likelihood and
\* differ by a penalty per parameter (the columns and the constant)
BicOf(vs) == aic[ToSet(vs)] + pen * (Len(vs) + 1)

\* ------------------------------------------------------ section 3: Box-Cox
\* line 129
ShiftOf(m) == IF m <= 0 THEN EpsShift - m ELSE 0

\* line 130: y0 + shift, elementwise
Shifted(s, d) == [i \in 1..Len(s) |-> s[i] + d]

IsConstant(s) == \A i, j \in 1..Len(s) : s[i] = s[j]

BCIdle == /\ min_y = 0 /\ shift = 0 /\ y_pos = <<>> /\ lambda_bc = <<>>
          /\ y_for_fit = [kind |-> "none"] /\ y_label = ""

SelIdle == /\ remaining = {} /\ current_aic = INF
           /\ selected_fwd = <<>> /\ selected_bwd = <<>> /\ selected_sw = <<>>
           /\ changed = FALSE

SubIdle == /\ results_subset = <<>> /\ res_df = <<>>
           /\ best_aic_vars = <<>> /\ best_bic_vars = <<>> /\ final_vars = <<>>

\* line 58 keeps the base order; the columns present are taken to be the
\* first n base factors
FactorLists == {SubSeq(base_factors, 1, n) : n \in 1..NumFactors}

DataIdle == /\ factors = <<>> /\ aic = <<>> /\ pen = 0 /\ rankdef = {}

RunIdle == run = 1 /\ prev = [fwd |-> <<>>, sw |-> <<>>]

Series == UNION {[1..n -> (-MaxY)..MaxY] : n \in 1..MaxObs}

InitBC ==
    /\ y0 \in Series
    /\ BCIdle /\ SelIdle /\ SubIdle /\ DataIdle /\ RunIdle
    /\ pc = "shift"

\* lines 128-130
ComputeShift ==
    /\ pc = "shift"
    /\ min_y' = SeqMin(y0)
    /\ shift' = ShiftOf(SeqMin(y0))
    /\ y_pos' = Shifted(y0, ShiftOf(SeqMin(y0)))
    /\ pc' = "boxcox"
    /\ UNCHANGED <<y0, lambda_bc, y_for_fit, y_label, dataVars, subVars, selVars, runVars>>

\* line 135, boxcox returns: the estimate is whatever the optimiser finds
\* (on a constant series the library, depending on its version, returns an
\* estimate or raises)
BoxCoxReturns ==
    /\ pc = "boxcox"
    /\ \A i \in 1..Len(y_pos) : y_pos[i] > 0
    /\ \E l \in (LambdaOne - MaxDev)..(LambdaOne + MaxDev) : lambda_bc' = <<l>>
    /\ pc' = "adopt"
    /\ UNCHANGED <<y0, min_y, shift, y_pos, y_for_fit, y_label, dataVars, subVars, selVars, runVars>>

\* lines 136-138, boxcox raises ValueError (constant or non-positive data)
BoxCoxValueError ==
    /\ pc = "boxcox"
    /\ IsConstant(y_pos) \/ \E i \in 1..Len(y_pos) : y_pos[i] <= 0
    /\ lambda_bc' = <<>>
    /\ pc' = "adopt"
    /\ UNCHANGED <<y0, min_y, shift, y_pos, y_for_fit, y_label, dataVars, subVars, selVars, runVars>>

\* the rule with the tolerance itself taken as a departure from 1
AdoptsAtTol(l) == l # <<>> /\ Abs(l[1] - LambdaOne) >= AdoptTol

\* line 141
Adopts(l) == l # <<>> /\ Abs(l[1] - LambdaOne) > AdoptTol

\* lines 141-143
AdoptTransform ==
    /\ pc = "adopt"
    /\ Adopts(lambda_bc)
    /\ y_for_fit' = [kind |-> "y_bc", lambda |-> lambda_bc[1], of |-> y_pos]
    /\ y_label' = "Y_boxcox"
    /\ pc' = "bc_done"
    /\ UNCHANGED <<y0, min_y, shift, y_pos, lambda_bc, dataVars, subVars, selVars, runVars>>

\* lines 144-146
KeepOriginal ==
    /\ pc = "adopt"
    /\ ~Adopts(lambda_bc)
    /\ y_for_fit' = [kind |-> "y0", of |-> y0]
    /\ y_label' = "Y (sem transformacao)"
    /\ pc' = "bc_done"
    /\ UNCHANGED <<y0, min_y, shift, y_pos, lambda_bc, dataVars, subVars, selVars, runVars>>

NextBC == ComputeShift \/ BoxCoxReturns \/ BoxCoxValueError \/ AdoptTransform \/ KeepOriginal

SpecBC == InitBC /\ [][NextBC]_vars

\* ------------------------------------- section 4.1: all-subsets table
\* itertools.combinations(s, k): the k-tuples of s in lexicographic order
\* of positions
RECURSIVE combinations(_, _)
combinations(s, k) ==
    IF k = 0 THEN << <<>> >>
    ELSE IF Len(s) < k THEN <<>>
    ELSE LET with == combinations(Tail(s), k - 1)
             without == combinations(Tail(s), k)
         IN  [i \in 1..Len(with) |-> <<Head(s)>> \o with[i]] \o without

\* lines 156-157: the subsets in the order the two loops visit them
RECURSIVE SubsetsUpTo(_)
SubsetsUpTo(k) ==
    IF k = 0 THEN <<>> ELSE SubsetsUpTo(k - 1) \o combinations(factors, k)

LoopOrder == SubsetsUpTo(Len(factors))

\* lines 158-166: the row appended for one subset (R2 plays no part in the
\* ranking and is left out)
RowOf(subset) ==
    [vars |-> subset, k |-> Len(subset), AIC |-> AicOf(subset), BIC |-> BicOf(subset)]

\* the order of a table sorted on AIC alone
KeyLessAicOnly(a, b, by) ==
    IF by = "BIC" THEN a.BIC < b.BIC ELSE a.AIC < b.AIC

\* the order of sort_values(by): by = "AIC,BIC" compares AIC then BIC,
\* by = "BIC" compares BIC
KeyLess(a, b, by) ==
    IF by = "BIC" THEN a.BIC < b.BIC
    ELSE a.AIC < b.AIC \/ (a.AIC = b.AIC /\ a.BIC < b.BIC)

\* a row put into a sorted frame behind every row that is not greater
Insert(row, df, by) ==
    LET n == Cardinality({i \in 1..Len(df) : ~KeyLess(row, df[i], by)})
    IN  SubSeq(df, 1, n) \o <<row>> \o SubSeq(df, n + 1, Len(df))

\* DataFrame.sort_values(by): the rows reordered, each keeping its fields
\* (its index label among them). Equal keys keep their order here; for a
\* single column pandas does not promise that, and line 170, the only such
\* sort, reads the result by label, not by position
RECURSIVE sort_values(_, _)
sort_values(df, by) ==
    IF df = <<>> THEN <<>>
    ELSE Insert(df[Len(df)], sort_values(SubSeq(df, 1, Len(df) - 1), by), by)

\* reset_index(drop=True): the labels become 0..n-1 in the current order
reset_index(df) ==
    [i \in 1..Len(df) |->
        [idx |-> i - 1, vars |-> df[i].vars, k |-> df[i].k,
         AIC |-> df[i].AIC, BIC |-> df[i].BIC]]

\* pd.DataFrame(rows): the default labels 0..n-1
DataFrame(rows) == reset_index(rows)

\* df.loc[label, "vars"]: the row whose index label is `label`
loc(df, label) == (CHOOSE r \in ToSet(df) : r.idx = label).vars

\* line 167
RankedTable(rows) == reset_index(sort_values(DataFrame(rows), "AIC,BIC"))

\* line 169
BestAicVars(df) == loc(df, 0)

\* line 170
BestBicVars(df) == loc(sort_values(df, "BIC"), 0)

\* line 242
FinalVars(best) == IF Len(best) > 0 THEN best ELSE factors

\* lines 156-166, one iteration of the loops
FitSubset ==
    /\ pc = "subsets"
    /\ Len(results_subset) < Len(LoopOrder)
    /\ results_subset' = Append(results_subset, RowOf(LoopOrder[Len(results_subset) + 1]))
    /\ UNCHANGED <<pc, res_df, best_aic_vars, best_bic_vars, final_vars,
                   bcVars, dataVars, selVars, runVars>>

\* line 167, after the loops
SortTable ==
    /\ pc = "subsets"
    /\ Len(results_subset) = Len(LoopOrder)
    /\ res_df' = RankedTable(results_subset)
    /\ pc' = "best"
    /\ UNCHANGED <<results_subset, best_aic_vars, best_bic_vars, final_vars,
                   bcVars, dataVars, selVars, runVars>>

\* lines 169-175
PickBest ==
    /\ pc = "best"
    /\ best_aic_vars' = BestAicVars(res_df)
    /\ best_bic_vars' = BestBicVars(res_df)
    /\ remaining' = F
    /\ selected_fwd' = <<>>
    /\ current_aic' = INF
    /\ pc' = "fwd"
    /\ UNCHANGED <<results_subset, res_df, final_vars, selected_bwd, selected_sw, changed,
                   bcVars, dataVars, runVars>>

AicTables == [SUBSET F -> 0..MaxAIC]

\* m.bic - m.aic is (ln(nobs) - 2) per parameter: negative below 8
\* observations, positive from 8 on
Penalties == (-MaxPen)..MaxPen

InitSubset ==
    /\ factors \in FactorLists
    /\ aic \in {a \in AicTables : a[{}] = 0}
    /\ pen \in Penalties
    /\ rankdef = {}
    /\ y0 = <<>> /\ BCIdle /\ SelIdle /\ SubIdle /\ RunIdle
    /\ pc = "subsets"

NextSubset == FitSubset \/ SortTable \/ PickBest

SpecSubset == InitSubset /\ [][NextSubset]_vars

\* ------------------------------------------- sections 4.2-4.4: searches
\* the test without the 1e-8 margin
ImprovesNoThreshold(new, cur) == new < cur

\* the test that takes a tie for an improvement
ImprovesOrTies(new, cur) == new <= cur

\* lines 183, 200, 220, 235: best_aic < current_aic - 1e-8
Improves(new, cur) == new < cur - Eps

\* lines 179-181, 215-217: the AIC of the candidate selected + [var]
AddAic(sel, var) == aic[ToSet(sel) \cup {var}]

\* lines 196-198, 228-231: the AIC of the candidate without var
DropAic(sel, var) == aic[ToSet(sel) \ {var}]

\* max in place of min: the candidates of highest AIC
BestAddsHighest(sel, rem) ==
    {v \in rem : \A w \in rem : aic[ToSet(sel) \cup {v}] >= aic[ToSet(sel) \cup {w}]}

\* lines 182, 219: min(..., key=lambda x: x[0]) over list(remaining) returns
\* the first candidate of lowest AIC in the iteration order of the set,
\* which the language leaves open: any candidate of lowest AIC
BestAdds(sel, rem) ==
    {v \in rem : \A w \in rem : AddAic(sel, v) <= AddAic(sel, w)}

\* lines 199, 233: min(..., key=lambda x: x[0]) over the list returns the
\* first variable of lowest AIC in list order
BestDrop(sel) ==
    LET i == CHOOSE j \in 1..Len(sel) :
                 /\ \A k \in 1..Len(sel) : DropAic(sel, sel[j]) <= DropAic(sel, sel[k])
                 /\ \A k \in 1..(j - 1) : DropAic(sel, sel[k]) > DropAic(sel, sel[j])
    IN  sel[i]

\* lines 176-186, a round that adds
FwdAdd ==
    /\ pc = "fwd"
    /\ remaining # {}
    /\ \E best_var \in BestAdds(selected_fwd, remaining) :
          /\ Improves(AddAic(selected_fwd, best_var), current_aic)
          /\ selected_fwd' = Append(selected_fwd, best_var)
          /\ remaining' = remaining \ {best_var}
          /\ current_aic' = AddAic(selected_fwd, best_var)
    /\ UNCHANGED <<pc, selected_bwd, selected_sw, changed, bcVars, dataVars, subVars, runVars>>

\* lines 187-188 (break), then line 191
FwdBreak ==
    /\ pc = "fwd"
    /\ remaining # {}
    /\ \E best_var \in BestAdds(selected_fwd, remaining) :
          ~Improves(AddAic(selected_fwd, best_var), current_aic)
    /\ selected_bwd' = factors
    /\ pc' = "bwd"
    /\ UNCHANGED <<remaining, current_aic, selected_fwd, selected_sw, changed,
                   bcVars, dataVars, subVars, runVars>>

\* line 176 with remaining empty, then line 191
FwdExhausted ==
    /\ pc = "fwd"
    /\ remaining = {}
    /\ selected_bwd' = factors
    /\ pc' = "bwd"
    /\ UNCHANGED <<remaining, current_aic, selected_fwd, selected_sw, changed,
                   bcVars, dataVars, subVars, runVars>>

\* lines 192-201, a round that removes
BwdRemove ==
    /\ pc = "bwd"
    /\ selected_bwd # <<>>
    /\ Improves(DropAic(selected_bwd, BestDrop(selected_bwd)), AicOf(selected_bwd))
    /\ selected_bwd' = Remove(selected_bwd, BestDrop(selected_bwd))
    /\ UNCHANGED <<pc, remaining, current_aic, selected_fwd, selected_sw, changed,
                   bcVars, dataVars, subVars, runVars>>

\* lines 202-203 (break), then lines 206-209
BwdBreak ==
    /\ pc = "bwd"
    /\ selected_bwd # <<>>
    /\ ~Improves(DropAic(selected_bwd, BestDrop(selected_bwd)), AicOf(selected_bwd))
    /\ selected_sw' = <<>>
    /\ remaining' = F
    /\ current_aic' = INF
    /\ changed' = TRUE
    /\ pc' = "sw"
    /\ UNCHANGED <<selected_fwd, selected_bwd, bcVars, dataVars, subVars, runVars>>

\* line 199 with selected_bwd empty: min() of an empty list raises
\* ValueError, which nothing catches
BwdRaise ==
    /\ pc = "bwd"
    /\ selected_bwd = <<>>
    /\ pc' = "error"
    /\ UNCHANGED <<selVars, bcVars, dataVars, subVars, runVars>>

\* lines 210-224, the add attempt succeeds
SwAdd ==
    /\ pc = "sw"
    /\ changed
    /\ remaining # {}
    /\ \E best_var \in BestAdds(selected_sw, remaining) :
          /\ Improves(AddAic(selected_sw, best_var), current_aic)
          /\ selected_sw' = Append(selected_sw, best_var)
          /\ remaining' = remaining \ {best_var}
          /\ current_aic' = AddAic(selected_sw, best_var)
    /\ changed' = TRUE
    /\ pc' = "sw_rem"
    /\ UNCHANGED <<selected_fwd, selected_bwd, bcVars, dataVars, subVars, runVars>>

\* lines 210-220, the add attempt changes nothing
SwNoAdd ==
    /\ pc = "sw"
    /\ changed
    /\ \/ remaining = {}
       \/ \E best_var \in BestAdds(selected_sw, remaining) :
             ~Improves(AddAic(selected_sw, best_var), current_aic)
    /\ changed' = FALSE
    /\ pc' = "sw_rem"
    /\ UNCHANGED <<remaining, current_aic, selected_fwd, selected_bwd, selected_sw,
                   bcVars, dataVars, subVars, runVars>>

\* lines 226-239, the remove attempt succeeds
SwRemove ==
    /\ pc = "sw_rem"
    /\ selected_sw # <<>>
    /\ Improves(DropAic(selected_sw, BestDrop(selected_sw)), AicOf(selected_sw))
    /\ selected_sw' = Remove(selected_sw, BestDrop(selected_sw))
    /\ remaining' = remaining \cup {BestDrop(selected_sw)}
    /\ current_aic' = DropAic(selected_sw, BestDrop(selected_sw))
    /\ changed' = TRUE
    /\ pc' = "sw"
    /\ UNCHANGED <<selected_fwd, selected_bwd, bcVars, dataVars, subVars, runVars>>

\* lines 226-235, the remove attempt changes nothing
SwNoRemove ==
    /\ pc = "sw_rem"
    /\ IF selected_sw = <<>> THEN TRUE
       ELSE ~Improves(DropAic(selected_sw, BestDrop(selected_sw)), AicOf(selected_sw))
    /\ pc' = "sw"
    /\ UNCHANGED <<selVars, bcVars, dataVars, subVars, runVars>>

\* line 210 with changed false: the loop ends
SwExit ==
    /\ pc = "sw"
    /\ ~changed
    /\ pc' = "final"
    /\ UNCHANGED <<selVars, bcVars, dataVars, subVars, runVars>>

\* lines 242-244
ChooseFinal ==
    /\ pc = "final"
    /\ final_vars' = FinalVars(best_bic_vars)
    /\ pc' = "done"
    /\ UNCHANGED <<results_subset, res_df, best_aic_vars, best_bic_vars,
                   selVars, bcVars, dataVars, runVars>>

\* the script is run again on the same file
Rerun ==
    /\ pc = "done"
    /\ run = 1
    /\ run' = 2
    /\ prev' = [fwd |-> selected_fwd, sw |-> selected_sw]
    /\ results_subset' = <<>> /\ res_df' = <<>>
    /\ best_aic_vars' = <<>> /\ best_bic_vars' = <<>> /\ final_vars' = <<>>
    /\ remaining' = {} /\ current_aic' = INF
    /\ selected_fwd' = <<>> /\ selected_bwd' = <<>> /\ selected_sw' = <<>>
    /\ changed' = FALSE
    /\ pc' = "subsets"
    /\ UNCHANGED <<bcVars, dataVars>>

\* the state at line 176
InitFwd ==
    /\ factors \in FactorLists
    /\ aic \in AicTables
    /\ pen = 0 /\ rankdef = {}
    /\ y0 = <<>> /\ BCIdle /\ SubIdle /\ RunIdle
    /\ remaining = F /\ selected_fwd = <<>> /\ current_aic = INF
    /\ selected_bwd = <<>> /\ selected_sw = <<>> /\ changed = FALSE
    /\ pc = "fwd"

NextFwd == FwdAdd \/ FwdBreak \/ FwdExhausted

SpecFwd == InitFwd /\ [][NextFwd]_vars

\* the state at line 210
InitSw ==
    /\ factors \in FactorLists
    /\ aic \in AicTables
    /\ pen = 0 /\ rankdef = {}
    /\ y0 = <<>> /\ BCIdle /\ SubIdle /\ RunIdle
    /\ remaining = F /\ selected_sw = <<>> /\ current_aic = INF /\ changed = TRUE
    /\ selected_fwd = <<>> /\ selected_bwd = <<>>
    /\ pc = "sw"

NextSw == SwAdd \/ SwNoAdd \/ SwRemove \/ SwNoRemove \/ SwExit

\* the loop runs on until line 210 ends it
SpecSw == InitSw /\ [][NextSw]_vars /\ WF_vars(NextSw)

\* the designs that have a rank-deficient one: none, or every set of
\* columns that contains a given dependent set
RankDefFamilies ==
    {{}} \cup {{T \in SUBSET F : S \subseteq T} : S \in (SUBSET F) \ {{}}}

\* the state at line 155
InitScript ==
    /\ factors \in FactorLists
    /\ aic \in AicTables
    /\ pen \in Penalties
    /\ rankdef \in RankDefFamilies
    /\ y0 = <<>> /\ BCIdle /\ SubIdle /\ SelIdle /\ RunIdle
    /\ pc = "subsets"

NextScript ==
    \/ FitSubset \/ SortTable \/ PickBest
    \/ FwdAdd \/ FwdBreak \/ FwdExhausted
    \/ BwdRemove \/ BwdBreak \/ BwdRaise
    \/ SwAdd \/ SwNoAdd \/ SwRemove \/ SwNoRemove \/ SwExit
    \/ ChooseFinal \/ Rerun

SpecScript == InitScript /\ [][NextScript]_vars

\* ================================================================ claims
NonEmptySubsets == (SUBSET F) \ {{}}

BicOfSet(S) == aic[S] + pen * (Cardinality(S) + 1)

Max(a, b) == IF a >= b THEN a ELSE b

AfterBest == pc \notin {"subsets", "best"}

\* C1: the best-by-BIC subset of the exhaustive search, and the final
\* variable set taken from it, has a BIC no greater than that of any other
\* non-empty subset.
C1_BestBicIsMinimal ==
    /\ AfterBest =>
          \A S \in NonEmptySubsets : BicOfSet(ToSet(best_bic_vars)) <= BicOfSet(S)
    /\ pc = "done" =>
          \A S \in NonEmptySubsets : BicOfSet(ToSet(final_vars)) <= BicOfSet(S)

\* C2: the table has one row for each of the 2^k - 1 non-empty subsets, is
\* ordered by AIC and then BIC, and the best-by-AIC subset is its first
\* row, of the lowest AIC of all non-empty subsets.
C2_TableRanked ==
    AfterBest =>
        /\ Len(res_df) = 2^Len(factors) - 1
        /\ \A S \in NonEmptySubsets :
              Cardinality({i \in 1..Len(res_df) : ToSet(res_df[i].vars) = S}) = 1
        /\ \A i \in 1..Len(res_df) :
              /\ res_df[i].AIC = aic[ToSet(res_df[i].vars)]
              /\ res_df[i].BIC = BicOfSet(ToSet(res_df[i].vars))
        /\ \A i \in 1..(Len(res_df) - 1) :
              \/ res_df[i].AIC < res_df[i + 1].AIC
              \/ res_df[i].AIC = res_df[i + 1].AIC /\ res_df[i].BIC <= res_df[i + 1].BIC
        /\ pc = "fwd" =>
              /\ best_aic_vars = res_df[1].vars
              /\ \A S \in NonEmptySubsets : aic[ToSet(best_aic_vars)] <= aic[S]

\* the table of a two-factor universe where two subsets tie on AIC and the
\* BIC decides their order, against the order of the loops
C2_Witness ==
    /\ pc = "fwd"
    /\ Len(factors) = 2
    /\ res_df[1].AIC = res_df[2].AIC
    /\ res_df[1].BIC < res_df[2].BIC
    /\ res_df[1].vars = factors
    /\ best_aic_vars = factors

\* what a round of forward selection does, as C3 describes it: the lowest
\* candidate is added if it improves on the current best by more than
\* 1e-8, otherwise the search stops
FwdRoundAsClaimed ==
    (pc = "fwd" /\ remaining # {}) =>
        LET lowest == CHOOSE a \in {AddAic(selected_fwd, v) : v \in remaining} :
                          \A w \in remaining : a <= AddAic(selected_fwd, w)
        IN  IF lowest < current_aic - Eps
            THEN /\ \E v \in remaining :
                       /\ AddAic(selected_fwd, v) = lowest
                       /\ selected_fwd' = Append(selected_fwd, v)
                 /\ pc' = "fwd"
            ELSE /\ selected_fwd' = selected_fwd
                 /\ pc' # "fwd"

\* C3 as stated: forward selection starts empty, each round adds the
\* lowest-AIC unused variable only on an improvement of more than 1e-8 and
\* stops otherwise, and the AIC of the selected set strictly decreases with
\* every variable added, the first one (added to the empty set) included.
C3_Original ==
    /\ (pc = "fwd" /\ remaining = F) => selected_fwd = <<>>
    /\ [][/\ FwdRoundAsClaimed
          /\ selected_fwd' # selected_fwd =>
                AicOf(selected_fwd') < AicOf(selected_fwd)]_vars

\* C3 amended: as above, but the AIC of the selected set strictly decreases
\* with every variable added after the first; the first variable is added
\* whatever the AIC of the constant-only model, as the search starts from a
\* current AIC of +infinity.
C3_Amended ==
    /\ (pc = "fwd" /\ remaining = F) => selected_fwd = <<>>
    /\ [][/\ FwdRoundAsClaimed
          /\ (selected_fwd' # selected_fwd /\ selected_fwd # <<>>) =>
                AicOf(selected_fwd') < AicOf(selected_fwd) - Eps
          /\ (selected_fwd' # selected_fwd /\ selected_fwd = <<>>) =>
                current_aic = INF]_vars

\* forward selection has ended after adding a second variable
C3_Witness ==
    /\ pc = "bwd"
    /\ Len(selected_fwd) = 2
    /\ AicOf(selected_fwd) < aic[{selected_fwd[1]}] - Eps
    /\ aic[{selected_fwd[1]}] >= aic[{}]

\* C4: backward elimination ends without an error, with a set from which
\* no single removal lowers AIC by more than 1e-8, also when the removals
\* empty the set.
C4_BackwardEndsNormally ==
    /\ pc # "error"
    /\ pc \in {"sw", "sw_rem", "final", "done"} =>
          \A v \in ToSet(selected_bwd) :
              ~(DropAic(selected_bwd, v) < AicOf(selected_bwd) - Eps)

SwLocalOptimum ==
    /\ \A v \in remaining : ~(AddAic(selected_sw, v) < AicOf(selected_sw) - Eps)
    /\ \A v \in ToSet(selected_sw) : ~(DropAic(selected_sw, v) < AicOf(selected_sw) - Eps)

SwPartition ==
    /\ ToSet(selected_sw) \cap remaining = {}
    /\ ToSet(selected_sw) \cup remaining = F
    /\ Cardinality(ToSet(selected_sw)) = Len(selected_sw)

\* C5: the stepwise search terminates; when it has, neither adding an
\* unused variable nor removing a selected one lowers the AIC of the
\* selected set by more than 1e-8; throughout, the selected list and the
\* remaining set are disjoint and together are the factor universe.
C5_StepwiseTerminatesAtOptimum ==
    /\ <>(pc = "final")
    /\ [](pc = "final" => SwLocalOptimum)
    /\ []SwPartition

\* the stepwise search has ended empty: the variable of the first round
\* was added and removed again, and a later round changed nothing
C5_Witness ==
    /\ pc = "final"
    /\ Len(factors) = 2
    /\ selected_sw = <<>>
    /\ remaining = F
    /\ current_aic = aic[{}]

\* the single-variable model of d beats every other single-variable model,
\* and adding a factor to a set that contains d does not lower AIC by more
\* than 1e-8
Dominant(d) ==
    /\ \A e \in F \ {d} : aic[{d}] < aic[{e}]
    /\ \A S \in SUBSET F : \A e \in F \ S :
          d \in S => ~(aic[S \cup {e}] < aic[S] - Eps)

\* C6: with one dominant factor d and pure-noise factors, forward
\* selection ends with exactly <<d>>.
C6_ForwardFindsDominant ==
    \A d \in F : (pc = "bwd" /\ Dominant(d)) => selected_fwd = <<d>>

\* forward selection has ended on data with a dominant second factor and a
\* noise factor
C6_Witness ==
    /\ pc = "bwd"
    /\ Len(factors) = 2
    /\ Dominant(factors[2])
    /\ selected_fwd = <<factors[2]>>

\* C7: a candidate whose design is rank-deficient is not ranked in the
\* exhaustive table and is not chosen by the forward or stepwise search.
C7_RankDeficientSkipped ==
    /\ \A i \in 1..Len(results_subset) : ToSet(results_subset[i].vars) \notin rankdef
    /\ ToSet(selected_fwd) \notin rankdef
    /\ ToSet(selected_sw) \notin rankdef

\* C8: the shift is max(0, eps - min), and the shifted response is at
\* least eps everywhere.
C8_ShiftIsMax ==
    pc # "shift" =>
        /\ shift = Max(0, EpsShift - SeqMin(y0))
        /\ \A i \in 1..Len(y_pos) : y_pos[i] >= EpsShift

\* C9: the response used downstream is the Box-Cox transform exactly when
\* the estimation returned a lambda with |lambda - 1| > 0.10; otherwise it
\* is the original, unshifted response, and nothing is raised.
C9_AdoptionRule ==
    /\ pc \in {"shift", "boxcox", "adopt", "bc_done"}
    /\ pc = "bc_done" =>
          IF lambda_bc # <<>> /\ (lambda_bc[1] - LambdaOne > AdoptTol
                                  \/ LambdaOne - lambda_bc[1] > AdoptTol)
          THEN y_for_fit = [kind |-> "y_bc", lambda |-> lambda_bc[1], of |-> y_pos]
          ELSE y_for_fit = [kind |-> "y0", of |-> y0]

\* the estimation failed on a shifted series and the original is kept
C9_Witness ==
    /\ pc = "bc_done"
    /\ lambda_bc = <<>>
    /\ shift > 0
    /\ y_for_fit = [kind |-> "y0", of |-> y0]

\* C10: a second run on the same data, whatever the iteration order of the
\* remaining candidates, ends with the same forward and stepwise lists.
C10_SameListsEveryOrder ==
    /\ (run = 2 /\ pc \in {"bwd", "sw", "sw_rem", "final", "done", "error"}) =>
          selected_fwd = prev.fwd
    /\ (run = 2 /\ pc \in {"final", "done"}) => selected_sw = prev.sw

====
